---- MODULE Spec2Model ----
(***************************************************************************)
(* Hourglass: per-user, per-feature daily quotas kept in a Redis store.    *)
(*                                                                         *)
(* The model has three parts:                                              *)
(*   - the wall clock (UTC), in ticks; TicksPerSec ticks make a second     *)
(*     and SecsPerDay seconds make a day (a scaled-down 86400);            *)
(*   - the store: for every key, absent or a value with an optional        *)
(*     expiry deadline, with the semantics of the Redis commands the       *)
(*     program issues (GET, INCR, DECR, TTL, EXPIRE, SET ... EX);          *)
(*   - the calls: each element of Calls is one invocation of Get, Consume  *)
(*     or Credit on an engine, stepping through the statements that read   *)
(*     the clock and the one request it sends to the store.                *)
(***************************************************************************)
EXTENDS Integers, Sequences, FiniteSets, TLC

\* ---------------------------------------------------------------- bounds
NCalls == 2
MaxLimit == 2
TicksPerSec == 2
SecsPerDay == 2
MaxDay == 1

Calls == 1..NCalls
TicksPerDay == TicksPerSec * SecsPerDay
MaxTime == (MaxDay + 1) * TicksPerDay - 1

\* Feature and user names are strings, written as sequences of characters.
Registered == {<<"f">>}
Features == Registered \cup {<<"x">>}
Users == {<<"u">>}

VARIABLES
    hg,        \* what New returned: the engine (or nil), the error, the ping made
    limits,    \* hg.appConfig.Limits: feature -> daily limit
    now,       \* the UTC wall clock, in ticks
    store,     \* the Redis keyspace: key -> entry
    call,      \* one record per invocation of Get / Consume / Credit
    lastGet    \* the Get call the store served last, when no other request,
               \* expiry or day change came after it; else 0

vars == <<hg, limits, now, store, call, lastGet>>

\* ------------------------------------------------------------- the clock
\* time.Now().UTC().Format("2006-01-02"): the date of an instant, as a string.
\* The model numbers the days and writes a date as two decimal digits.
Digit == <<"0", "1", "2", "3", "4", "5", "6", "7", "8", "9">>
\* Mutant: the date without its day, Format("2006-01"): the same string on
\* every day of the model.
FormatDateMonth(t) ==
    LET m == t \div (TicksPerDay * 100)
    IN <<Digit[((m \div 10) % 10) + 1], Digit[(m % 10) + 1]>>

FormatDate(t) ==
    LET d == t \div TicksPerDay
    IN <<Digit[((d \div 10) % 10) + 1], Digit[(d % 10) + 1]>>

\* getKey: fmt.Sprintf("%s:%s:%s", featureName, username, date)
getKey(featureName, username, t) ==
    featureName \o <<":">> \o username \o <<":">> \o FormatDate(t)

\* timeUntilEndOfDay: the duration from t to the next UTC midnight, in ticks.
timeUntilEndOfDay(t) == ((t \div TicksPerDay) + 1) * TicksPerDay - t

\* int(d.Seconds()): a duration in whole seconds, truncated.
Seconds(d) == d \div TicksPerSec

\* ------------------------------------------------------------- the store
NoExpiry == -1
Absent == [present |-> FALSE, int |-> FALSE, n |-> 0, exp |-> NoExpiry]
IntEntry(n, exp) == [present |-> TRUE, int |-> TRUE, n |-> n, exp |-> exp]
StrEntry(exp) == [present |-> TRUE, int |-> FALSE, n |-> 0, exp |-> exp]

AllKeys == {getKey(f, u, d * TicksPerDay) : f \in Features, u \in Users, d \in 0..MaxDay}

\* redis.call('INCR', key) on an absent key or an integer value
RedisIncr(st, key) ==
    IF st[key].present THEN [st EXCEPT ![key].n = @ + 1]
    ELSE [st EXCEPT ![key] = IntEntry(1, NoExpiry)]

\* Mutant: a decrement that stops at zero.
RedisDecrFloor(st, key) ==
    IF st[key].present THEN [st EXCEPT ![key].n = IF @ > 0 THEN @ - 1 ELSE 0]
    ELSE [st EXCEPT ![key] = IntEntry(0, NoExpiry)]

\* Mutant: a decrement done as GET and SET, which drops the key's expiry.
RedisDecrSet(st, key) ==
    IF st[key].present THEN [st EXCEPT ![key] = IntEntry(@.n - 1, NoExpiry)]
    ELSE [st EXCEPT ![key] = IntEntry(-1, NoExpiry)]

\* DECR key on an absent key or an integer value
RedisDecr(st, key) ==
    IF st[key].present THEN [st EXCEPT ![key].n = @ - 1]
    ELSE [st EXCEPT ![key] = IntEntry(-1, NoExpiry)]

\* redis.call('TTL', key): -2 no key, -1 no expiry, else the seconds left (rounded)
RedisTTL(st, key, t) ==
    IF ~st[key].present THEN -2
    ELSE IF st[key].exp = NoExpiry THEN -1
    ELSE (2 * (st[key].exp - t) + TicksPerSec) \div (2 * TicksPerSec)

\* redis.call('EXPIRE', key, ttl): a ttl <= 0 deletes the key at once
RedisExpire(st, key, ttl, t) ==
    IF ~st[key].present THEN st
    ELSE IF ttl <= 0 THEN [st EXCEPT ![key] = Absent]
    ELSE [st EXCEPT ![key].exp = t + ttl * TicksPerSec]

\* The store drops every key whose deadline has passed.
Expired(st, t) ==
    [k \in DOMAIN st |->
        IF st[k].present /\ st[k].exp /= NoExpiry /\ st[k].exp <= t THEN Absent ELSE st[k]]

\* Mutant: a fixed-window counter that increments first and denies when the
\* new value is over the limit, without taking the increment back.
ConsumeScriptIncrOnly(st, key, limit, ttl, t) ==
    LET cur == st[key]
    IN IF cur.present /\ ~cur.int
       THEN [st |-> st, err |-> TRUE, reply |-> <<>>, incr |-> 0, decr |-> 0]
       ELSE LET s1 == RedisIncr(st, key)
                new_value == s1[key].n
                s2 == IF RedisTTL(s1, key, t) = -1
                      THEN RedisExpire(s1, key, ttl, t)
                      ELSE s1
            IN IF new_value > limit
               THEN [st |-> s2, err |-> FALSE, reply |-> <<limit, limit, 0>>,
                     incr |-> 1, decr |-> 0]
               ELSE [st |-> s2, err |-> FALSE, reply |-> <<new_value, limit, 1>>,
                     incr |-> 1, decr |-> 0]

\* Mutant: the script without its first check (current >= limit): it always
\* increments, and compensates when the new value is over the limit.
ConsumeScriptNoPrecheck(st, key, limit, ttl, t) ==
    LET cur == st[key]
    IN IF cur.present /\ ~cur.int
       THEN [st |-> st, err |-> TRUE, reply |-> <<>>, incr |-> 0, decr |-> 0]
       ELSE LET s1 == RedisIncr(st, key)
                new_value == s1[key].n
                s2 == IF RedisTTL(s1, key, t) = -1
                      THEN RedisExpire(s1, key, ttl, t)
                      ELSE s1
            IN IF new_value > limit
               THEN [st |-> RedisDecr(s2, key), err |-> FALSE,
                     reply |-> <<limit, limit, 0>>, incr |-> 1, decr |-> 1]
               ELSE [st |-> s2, err |-> FALSE, reply |-> <<new_value, limit, 1>>,
                     incr |-> 1, decr |-> 0]

\* Mutant: the script with EXPIRE on every increment, without the TTL check.
ConsumeScriptAlwaysExpire(st, key, limit, ttl, t) ==
    LET cur == st[key]
    IN IF cur.present /\ ~cur.int
       THEN [st |-> st, err |-> TRUE, reply |-> <<>>, incr |-> 0, decr |-> 0]
       ELSE LET current == IF cur.present THEN cur.n ELSE 0
            IN IF current >= limit
               THEN [st |-> st, err |-> FALSE, reply |-> <<current, limit, 0>>,
                     incr |-> 0, decr |-> 0]
               ELSE LET s1 == RedisIncr(st, key)
                        new_value == s1[key].n
                        s2 == RedisExpire(s1, key, ttl, t)
                    IN [st |-> s2, err |-> FALSE,
                        reply |-> <<new_value, limit, 1>>, incr |-> 1, decr |-> 0]

\* Mutant: the script with its first check off by one (current > limit), so
\* that a counter at the limit is incremented and then compensated.
ConsumeScriptPrecheckOff(st, key, limit, ttl, t) ==
    LET cur == st[key]
    IN IF cur.present /\ ~cur.int
       THEN [st |-> st, err |-> TRUE, reply |-> <<>>, incr |-> 0, decr |-> 0]
       ELSE LET current == IF cur.present THEN cur.n ELSE 0
            IN IF current > limit
               THEN [st |-> st, err |-> FALSE, reply |-> <<current, limit, 0>>,
                     incr |-> 0, decr |-> 0]
               ELSE LET s1 == RedisIncr(st, key)
                        new_value == s1[key].n
                        s2 == IF RedisTTL(s1, key, t) = -1
                              THEN RedisExpire(s1, key, ttl, t)
                              ELSE s1
                    IN IF new_value > limit
                       THEN [st |-> RedisDecr(s2, key), err |-> FALSE,
                             reply |-> <<limit, limit, 0>>, incr |-> 1, decr |-> 1]
                       ELSE [st |-> s2, err |-> FALSE,
                             reply |-> <<new_value, limit, 1>>, incr |-> 1, decr |-> 0]

\* --------------------------------------------------- consume.lua (atomic)
\* The script's result: the keyspace it leaves, whether it raised an error,
\* the list it returns, and how many INCR and DECR commands it ran.
ConsumeScript(st, key, limit, ttl, t) ==
    LET cur == st[key]
    IN IF cur.present /\ ~cur.int
       THEN \* tonumber gives nil (or INCR rejects the value): the script errors
            [st |-> st, err |-> TRUE, reply |-> <<>>, incr |-> 0, decr |-> 0]
       ELSE LET current == IF cur.present THEN cur.n ELSE 0
            IN IF current >= limit
               THEN [st |-> st, err |-> FALSE, reply |-> <<current, limit, 0>>,
                     incr |-> 0, decr |-> 0]
               ELSE LET s1 == RedisIncr(st, key)
                        new_value == s1[key].n
                        s2 == IF RedisTTL(s1, key, t) = -1
                              THEN RedisExpire(s1, key, ttl, t)
                              ELSE s1
                    IN IF new_value > limit
                       THEN [st |-> RedisDecr(s2, key), err |-> FALSE,
                             reply |-> <<limit, limit, 0>>, incr |-> 1, decr |-> 1]
                       ELSE [st |-> s2, err |-> FALSE,
                             reply |-> <<new_value, limit, 1>>, incr |-> 1, decr |-> 0]

\* ------------------------------------------------------------ the engine
\* A reply of the script call as go-redis hands it over: a value that is or
\* is not a list, whose elements are or are not all int64.
ListReply(vals) == [isList |-> TRUE, allInt |-> TRUE, vals |-> vals]
MalformedReplies ==
    { [isList |-> FALSE, allInt |-> TRUE, vals |-> <<>>],
      [isList |-> TRUE, allInt |-> TRUE, vals |-> <<1, 1>>],
      [isList |-> TRUE, allInt |-> FALSE, vals |-> <<1, 1, 1>>] }

\* The unchecked type assertions and indexing of Consume panic on these.
Panics(r) == ~r.isList \/ Len(r.vals) < 3 \/ ~r.allInt

\* Consume, after the script call returned without error.
DecodeReply(r) == <<r.vals[1], r.vals[2], r.vals[3] = 1>>

\* Mutant: Get reporting an absent counter as 0.
GetResultAbsentZero(entry, limit) ==
    IF ~entry.present THEN <<0, limit>>
    ELSE IF ~entry.int THEN <<-1, limit>>
    ELSE <<entry.n, limit>>

\* Get, after GET returned: redis.Nil and a failed cmd.Int() both give -1.
GetResult(entry, limit) ==
    IF ~entry.present THEN <<-1, limit>>
    ELSE IF ~entry.int THEN <<-1, limit>>
    ELSE <<entry.n, limit>>

\* Mutant: returning the looked-up limit (the map's zero value) instead of -1.
SentinelZeroLimit(op) == IF op = "Consume" THEN <<-1, 0, TRUE>> ELSE <<-1, 0>>

\* The result for a feature that is not in Limits.
Sentinel(op) == IF op = "Consume" THEN <<-1, -1, TRUE>> ELSE <<-1, -1>>

\* Mutant: failing closed.
FailClosed(limit) == <<-1, limit, FALSE>>

\* Consume when the script call returned an error: fail open.
FailOpen(limit) == <<-1, limit, TRUE>>

\* Get and Credit when the request returned an error.
Unknown(limit) == <<-1, limit>>

Idle == [pc |-> "idle", op |-> "none", feature |-> <<>>, user |-> <<>>, key |-> <<>>,
         ttl |-> 0, result |-> <<>>, err |-> "none", sent |-> FALSE]

\* The result of New for a connectivity check that succeeded or failed.
\* Mutant: a constructor that ignores the error of the ping.
NewResultNoCheck(pingOk) ==
    [engine |-> TRUE, err |-> FALSE, ping |-> IF pingOk THEN "ok" ELSE "fail"]

NewResult(pingOk) ==
    IF pingOk THEN [engine |-> TRUE, err |-> FALSE, ping |-> "ok"]
    ELSE [engine |-> FALSE, err |-> TRUE, ping |-> "fail"]

\* Before New is called: no engine, no error, no ping made.
Unbuilt == [engine |-> FALSE, err |-> FALSE, ping |-> "none"]

\* Invocations are methods of the engine New returned, and take the call
\* slots in order (the slots are interchangeable).
Free(c) ==
    /\ hg.engine
    /\ call[c].pc = "idle" /\ \A d \in Calls : d < c => call[d].pc /= "idle"

\* What the store may hold for today's counter when the engine is built: nothing,
\* or a value written as the tests' fixtures write it:
\* h.redisClient.Set(ctx, getKey(feature, user), value, 1*time.Minute).
\* (A counter without expiry arises in the model from Credit on an absent key.)
SetTTLSecs == 1
FixtureEntries ==
    {Absent, StrEntry(SetTTLSecs * TicksPerSec)}
    \cup {IntEntry(n, SetTTLSecs * TicksPerSec) : n \in 0..(MaxLimit + 1)}

\* The keyspace in which today's counters (date of instant 0) all hold e.
Keyspace(e) ==
    [k \in AllKeys |->
        IF k \in {getKey(f, u, 0) : f \in Features, u \in Users} THEN e ELSE Absent]

Init ==
    /\ hg = NewResult(TRUE)
    /\ limits \in [Registered -> 1..MaxLimit]
    /\ now = 0
    /\ \E e \in FixtureEntries : store = Keyspace(e)
    /\ call = [c \in Calls |-> Idle]
    /\ lastGet = 0

\* Get, up to the point where the request leaves: the limit lookup and getKey.
Get(c, featureName, userName) ==
    /\ Free(c)
    /\ call' = [call EXCEPT ![c] =
          IF featureName \notin DOMAIN limits
          THEN [@ EXCEPT !.pc = "done", !.op = "Get", !.feature = featureName,
                         !.user = userName, !.result = Sentinel("Get")]
          ELSE [@ EXCEPT !.pc = "ready", !.op = "Get", !.feature = featureName,
                         !.user = userName, !.key = getKey(featureName, userName, now)]]
    /\ UNCHANGED <<hg, limits, now, store, lastGet>>

\* Mutant: a Get that reads with GETDEL, removing the counter it reads.
GetReplyDel(c) ==
    /\ call[c].pc = "ready" /\ call[c].op = "Get"
    /\ call' = [call EXCEPT ![c] =
          [@ EXCEPT !.pc = "done", !.sent = TRUE, !.ttl = 0,
                    !.err = IF ~store[call[c].key].present THEN "nil"
                            ELSE IF ~store[call[c].key].int THEN "parse" ELSE "none",
                    !.result = GetResult(store[call[c].key], limits[call[c].feature])]]
    /\ store' = [store EXCEPT ![call[c].key] = Absent]
    /\ lastGet' = c
    /\ UNCHANGED <<hg, limits, now>>

\* The store serves GET and Get returns.
GetReply(c) ==
    /\ call[c].pc = "ready" /\ call[c].op = "Get"
    /\ call' = [call EXCEPT ![c] =
          [@ EXCEPT !.pc = "done", !.sent = TRUE, !.ttl = 0,
                    !.err = IF ~store[call[c].key].present THEN "nil"
                            ELSE IF ~store[call[c].key].int THEN "parse" ELSE "none",
                    !.result = GetResult(store[call[c].key], limits[call[c].feature])]]
    /\ lastGet' = c
    /\ UNCHANGED <<hg, limits, now, store>>

\* GET fails in transport (network error, timeout, cancelled context).
GetFail(c) ==
    /\ call[c].pc = "ready" /\ call[c].op = "Get"
    /\ call' = [call EXCEPT ![c] =
          [@ EXCEPT !.pc = "done", !.sent = TRUE, !.ttl = 0, !.err = "transport",
                    !.result = Unknown(limits[call[c].feature])]]
    /\ lastGet' = c
    /\ UNCHANGED <<hg, limits, now, store>>

\* Consume, first statements: getKey, then the limit lookup.
Consume(c, featureName, userName) ==
    /\ Free(c)
    /\ call' = [call EXCEPT ![c] =
          IF featureName \notin DOMAIN limits
          THEN [@ EXCEPT !.pc = "done", !.op = "Consume", !.feature = featureName,
                         !.user = userName, !.key = getKey(featureName, userName, now),
                         !.result = Sentinel("Consume")]
          ELSE [@ EXCEPT !.pc = "keyed", !.op = "Consume", !.feature = featureName,
                         !.user = userName, !.key = getKey(featureName, userName, now)]]
    /\ UNCHANGED <<hg, limits, now, store, lastGet>>

\* Consume: ttl := int(timeUntilEndOfDay().Seconds()), a second clock read.
ConsumeTTL(c) ==
    /\ call[c].pc = "keyed" /\ call[c].op = "Consume"
    /\ call' = [call EXCEPT ![c] =
          [@ EXCEPT !.pc = "ready", !.ttl = Seconds(timeUntilEndOfDay(now))]]
    /\ UNCHANGED <<hg, limits, now, store, lastGet>>

\* The store runs the script atomically and Consume decodes its reply; a
\* script error is an error of the call, and Consume fails open.
ConsumeReply(c) ==
    /\ call[c].pc = "ready" /\ call[c].op = "Consume"
    /\ LET r == ConsumeScript(store, call[c].key, limits[call[c].feature], call[c].ttl, now)
       IN /\ store' = r.st
          /\ call' = [call EXCEPT ![c] =
                [@ EXCEPT !.pc = "done", !.sent = TRUE, !.ttl = 0,
                          !.err = IF r.err THEN "script" ELSE "none",
                          !.result = IF r.err THEN FailOpen(limits[call[c].feature])
                                     ELSE DecodeReply(ListReply(r.reply))]]
    /\ lastGet' = 0
    /\ UNCHANGED <<hg, limits, now>>

\* The script call fails in transport; the store may or may not have run it.
ConsumeFail(c, ran) ==
    /\ call[c].pc = "ready" /\ call[c].op = "Consume"
    /\ LET r == ConsumeScript(store, call[c].key, limits[call[c].feature], call[c].ttl, now)
       IN store' = IF ran THEN r.st ELSE store
    /\ call' = [call EXCEPT ![c] =
          [@ EXCEPT !.pc = "done", !.sent = TRUE, !.ttl = 0, !.err = "transport",
                    !.result = FailOpen(limits[call[c].feature])]]
    /\ lastGet' = 0
    /\ UNCHANGED <<hg, limits, now>>

\* The call succeeds in transport with a reply that is not a list of three
\* integers: Consume asserts the types unchecked, so the goroutine panics.
ConsumeMalformed(c, r) ==
    /\ call[c].pc = "ready" /\ call[c].op = "Consume"
    /\ call' = [call EXCEPT ![c] =
          IF Panics(r)
          THEN [@ EXCEPT !.pc = "panicked", !.sent = TRUE, !.ttl = 0, !.err = "malformed"]
          ELSE [@ EXCEPT !.pc = "done", !.sent = TRUE, !.ttl = 0, !.err = "malformed",
                         !.result = DecodeReply(r)]]
    /\ lastGet' = 0
    /\ UNCHANGED <<hg, limits, now, store>>

\* Credit, first statements: the key, then the limit lookup.
Credit(c, featureName, userName) ==
    /\ Free(c)
    /\ call' = [call EXCEPT ![c] =
          IF featureName \notin DOMAIN limits
          THEN [@ EXCEPT !.pc = "done", !.op = "Credit", !.feature = featureName,
                         !.user = userName, !.key = getKey(featureName, userName, now),
                         !.result = Sentinel("Credit")]
          ELSE [@ EXCEPT !.pc = "ready", !.op = "Credit", !.feature = featureName,
                         !.user = userName, !.key = getKey(featureName, userName, now)]]
    /\ UNCHANGED <<hg, limits, now, store, lastGet>>

\* The store serves DECR (an error when the value is no integer).
CreditReply(c) ==
    /\ call[c].pc = "ready" /\ call[c].op = "Credit"
    /\ LET k == call[c].key
           bad == store[k].present /\ ~store[k].int
           s1 == IF bad THEN store ELSE RedisDecr(store, k)
       IN /\ store' = s1
          /\ call' = [call EXCEPT ![c] =
                [@ EXCEPT !.pc = "done", !.sent = TRUE, !.ttl = 0,
                          !.err = IF bad THEN "type" ELSE "none",
                          !.result = IF bad THEN Unknown(limits[call[c].feature])
                                     ELSE <<s1[k].n, limits[call[c].feature]>>]]
    /\ lastGet' = 0
    /\ UNCHANGED <<hg, limits, now>>

\* DECR fails in transport; the store may or may not have served it.
CreditFail(c, ran) ==
    /\ call[c].pc = "ready" /\ call[c].op = "Credit"
    /\ LET k == call[c].key
           bad == store[k].present /\ ~store[k].int
       IN store' = IF ran /\ ~bad THEN RedisDecr(store, k) ELSE store
    /\ call' = [call EXCEPT ![c] =
          [@ EXCEPT !.pc = "done", !.sent = TRUE, !.ttl = 0, !.err = "transport",
                    !.result = Unknown(limits[call[c].feature])]]
    /\ lastGet' = 0
    /\ UNCHANGED <<hg, limits, now>>

\* Time passes; the store drops the keys whose deadline is reached.
Tick ==
    /\ now < MaxTime
    /\ now' = now + 1
    /\ store' = Expired(store, now + 1)
    /\ lastGet' = IF store' /= store \/ FormatDate(now + 1) /= FormatDate(now)
                  THEN 0 ELSE lastGet
    /\ UNCHANGED <<hg, limits, call>>

Next ==
    \/ \E c \in Calls, f \in Features, u \in Users : Get(c, f, u)
    \/ \E c \in Calls : GetReply(c)
    \/ \E c \in Calls : GetFail(c)
    \/ \E c \in Calls, f \in Features, u \in Users : Consume(c, f, u)
    \/ \E c \in Calls : ConsumeTTL(c)
    \/ \E c \in Calls : ConsumeReply(c)
    \/ \E c \in Calls, ran \in BOOLEAN : ConsumeFail(c, ran)
    \/ \E c \in Calls, r \in MalformedReplies : ConsumeMalformed(c, r)
    \/ \E c \in Calls, f \in Features, u \in Users : Credit(c, f, u)
    \/ \E c \in Calls : CreditReply(c)
    \/ \E c \in Calls, ran \in BOOLEAN : CreditFail(c, ran)
    \/ Tick

Spec == Init /\ [][Next]_vars

\* ------------------------------------------------- restricted scenarios
\* Counters that only Get and Consume can have left: absent, or 0..limit.
InitFresh ==
    /\ hg = NewResult(TRUE)
    /\ limits \in [Registered -> 1..MaxLimit]
    /\ now = 0
    /\ \E e \in FixtureEntries :
          /\ e.present => (e.int /\ \A f \in Registered : e.n <= limits[f])
          /\ store = Keyspace(e)
    /\ call = [c \in Calls |-> Idle]
    /\ lastGet = 0

SpecFresh == InitFresh /\ [][Next]_vars

\* No counter yet, no Credit, no store failure: only Get and Consume.
InitAbsent ==
    /\ hg = NewResult(TRUE)
    /\ limits \in [Registered -> 1..MaxLimit]
    /\ now = 0
    /\ store = Keyspace(Absent)
    /\ call = [c \in Calls |-> Idle]
    /\ lastGet = 0

NextQuota ==
    \/ \E c \in Calls, f \in Features, u \in Users : Get(c, f, u)
    \/ \E c \in Calls : GetReply(c)
    \/ \E c \in Calls, f \in Features, u \in Users : Consume(c, f, u)
    \/ \E c \in Calls : ConsumeTTL(c)
    \/ \E c \in Calls : ConsumeReply(c)
    \/ Tick

SpecQuota == InitAbsent /\ [][NextQuota]_vars

\* Construction: the caller starts without an engine and calls New, whose
\* ping of the store succeeds or fails; New may be called again after a failure.
New(pingOk) ==
    /\ ~hg.engine
    /\ hg' = NewResult(pingOk)
    /\ UNCHANGED <<limits, now, store, call, lastGet>>

InitNew ==
    /\ hg = Unbuilt
    /\ limits \in [Registered -> 1..MaxLimit]
    /\ now = 0
    /\ store = Keyspace(Absent)
    /\ call = [c \in Calls |-> Idle]
    /\ lastGet = 0

NextNew ==
    \/ \E pingOk \in BOOLEAN : New(pingOk)
    \/ Next

SpecNew == InitNew /\ [][NextNew]_vars

\* Key derivation alone: every name is a registered feature and a user, names
\* may hold the delimiter, and the calls stop once their key is derived.
KeyNames == {<<"a">>, <<":">>, <<"a", ":">>, <<":", "a">>}

InitKey ==
    /\ hg = NewResult(TRUE)
    /\ limits = [f \in KeyNames |-> MaxLimit]
    /\ now = 0
    /\ store = Keyspace(Absent)
    /\ call = [c \in Calls |-> Idle]
    /\ lastGet = 0

NextKey ==
    \/ \E c \in Calls, f \in KeyNames, u \in KeyNames : Get(c, f, u)
    \/ \E c \in Calls, f \in KeyNames, u \in KeyNames : Consume(c, f, u)
    \/ \E c \in Calls, f \in KeyNames, u \in KeyNames : Credit(c, f, u)
    \/ Tick

SpecKey == InitKey /\ [][NextKey]_vars

\* The race: today's counter holds limit-1 (absent also stands for 0), with no
\* expiry or with the end of the day as its deadline, and every call is a
\* Consume of the registered feature; no store failure.
InitRace ==
    /\ hg = NewResult(TRUE)
    /\ limits \in [Registered -> 1..MaxLimit]
    /\ now = 0
    /\ \E e \in {Absent} \cup {IntEntry(n, d) : n \in 0..MaxLimit, d \in {NoExpiry, TicksPerDay}} :
          /\ \A f \in Registered : (IF e.present THEN e.n ELSE 0) = limits[f] - 1
          /\ store = Keyspace(e)
    /\ call = [c \in Calls |-> Idle]
    /\ lastGet = 0

NextRace ==
    \/ \E c \in Calls, f \in Registered, u \in Users : Consume(c, f, u)
    \/ \E c \in Calls : ConsumeTTL(c)
    \/ \E c \in Calls : ConsumeReply(c)
    \/ Tick

SpecRace == InitRace /\ [][NextRace]_vars

\* ----------------------------------------------------------- the claims
Today == {getKey(f, u, 0) : f \in Registered, u \in Users}
LimitOf(c) == limits[call[c].feature]
IsDone(c, op) == call[c].pc = "done" /\ call[c].op = op
IsRegistered(c) == call[c].feature \in DOMAIN limits
Allowed(k) ==
    {c \in Calls : IsDone(c, "Consume") /\ IsRegistered(c) /\ call[c].key = k /\ call[c].result[3]}

\* The store serves the request of call c in this step, and c returns.
Serves(c, op) == call[c].pc = "ready" /\ call[c].op = op /\ call'[c].pc = "done"

\* C1: with the counter at limit-1 and every call a Consume of that counter,
\* all within the day and with no store failure: when the last call returns,
\* exactly one call was allowed and the counter holds limit.
RaceOver(k) == \A c \in Calls : IsDone(c, "Consume") /\ call[c].key = k
C1_ExactlyOneAllowed ==
    [][\A k \in Today :
          (~RaceOver(k) /\ RaceOver(k)' /\ now' < TicksPerDay)
             => /\ Cardinality(Allowed(k))' = 1
                /\ store'[k].present /\ store'[k].int
                /\ \A c \in Calls : store'[k].n = LimitOf(c)]_vars

\* C2: a counter that starts absent or in 0..limit and is touched only by
\* Get, Consume and Credit always holds an integer <= limit, and an integer
\* >= 0 as long as no Credit request was sent for it.
CreditSent(k) == \E c \in Calls : call[c].op = "Credit" /\ call[c].key = k /\ call[c].sent
C2_CounterInRange ==
    \A f \in Registered, u \in Users, d \in 0..MaxDay :
        LET k == getKey(f, u, d * TicksPerDay)
        IN store[k].present =>
              /\ store[k].int
              /\ store[k].n <= limits[f]
              /\ ~CreditSent(k) => store[k].n >= 0
C2_Witness ==
    \E c \in Calls, d \in Calls :
        /\ IsDone(c, "Consume") /\ IsRegistered(c) /\ call[c].result = <<LimitOf(c), LimitOf(c), TRUE>>
        /\ store[call[c].key].present /\ store[call[c].key].n = LimitOf(c)
        /\ IsDone(d, "Consume") /\ call[d].key = call[c].key /\ call[d].result[3] = FALSE

\* C3: starting from an absent counter, with only Get and Consume calls made
\* within the day and no store failure, at most limit Consume calls of one
\* counter are allowed.
C3_AtMostLimitAllowed ==
    \A f \in Registered, k \in Today :
        now < TicksPerDay => Cardinality(Allowed(k)) <= limits[f]

\* C4: a Consume served while the counter holds v < limit (absent: v = 0)
\* returns (v+1, limit, true) and leaves v+1 stored, so that a Get served next
\* returns (v+1, limit).
C4_ConsumeBelowLimit ==
    [][\A c \in Calls :
          LET e == store[call[c].key]
              v == IF e.present THEN e.n ELSE 0
          IN (Serves(c, "Consume") /\ call'[c].err = "none" /\ (e.present => e.int)
                /\ v < LimitOf(c))
             => /\ call'[c].result = <<v + 1, LimitOf(c), TRUE>>
                /\ store'[call[c].key].present
                /\ store'[call[c].key].n = v + 1
                /\ GetResult(store'[call[c].key], LimitOf(c)) = <<v + 1, LimitOf(c)>>]_vars

\* C5: a Consume served while the counter holds an integer v >= limit returns
\* (v, limit, false) and leaves the whole keyspace as it was.
C5_ConsumeAtLimit ==
    [][\A c \in Calls :
          LET e == store[call[c].key]
          IN (Serves(c, "Consume") /\ call'[c].err = "none" /\ e.present /\ e.int
                /\ e.n >= LimitOf(c))
             => /\ call'[c].result = <<e.n, LimitOf(c), FALSE>>
                /\ store' = store]_vars
C5_Witness ==
    \E c \in Calls :
        /\ IsDone(c, "Consume") /\ call[c].err = "none" /\ IsRegistered(c)
        /\ call[c].result[1] > LimitOf(c) /\ call[c].result[3] = FALSE
        /\ store[call[c].key].present /\ store[call[c].key].n = call[c].result[1]

\* C6: a Consume of a registered feature whose script call failed (transport
\* failure or script error) returns (-1, limit, true).
C6_FailOpen ==
    \A c \in Calls :
        (call[c].op = "Consume" /\ call[c].err \in {"transport", "script"})
            => call[c].pc = "done" /\ call[c].result = <<-1, LimitOf(c), TRUE>>
C6_Witness ==
    \E c \in Calls, d \in Calls :
        /\ IsDone(c, "Consume") /\ call[c].err = "transport"
        /\ IsDone(d, "Consume") /\ call[d].err = "script"

\* C7: a Consume whose script call returned a malformed reply still returns,
\* and returns the fail-open tuple (-1, limit, true).
C7_MalformedFailsOpen ==
    \A c \in Calls :
        call[c].err = "malformed"
            => call[c].pc = "done" /\ call[c].result = <<-1, LimitOf(c), TRUE>>

\* C8: a call for a feature that is not in Limits returns at once with the
\* sentinel ((-1,-1) for Get and Credit, (-1,-1,true) for Consume) and sends
\* no request to the store.
C8_Unregistered ==
    \A c \in Calls :
        (call[c].op /= "none" /\ ~IsRegistered(c))
            => /\ call[c].pc = "done"
               /\ ~call[c].sent
               /\ call[c].op = "Consume" => call[c].result = <<-1, -1, TRUE>>
               /\ call[c].op \in {"Get", "Credit"} => call[c].result = <<-1, -1>>
C8_Witness ==
    /\ \E c \in Calls : IsDone(c, "Consume") /\ ~IsRegistered(c)
    /\ \E c \in Calls : call[c].op \in {"Get", "Credit"} /\ ~IsRegistered(c)
    /\ \E k \in AllKeys : store[k].present

\* C9: a Get of a registered feature returns (v, limit) when the read
\* succeeded and the stored value is the integer v, and (-1, limit) when the
\* key is absent, the read failed or the value is no integer.
C9_GetResult ==
    [][\A c \in Calls :
          LET e == store[call[c].key]
          IN Serves(c, "Get")
             => call'[c].result =
                  IF call'[c].err /= "transport" /\ e.present /\ e.int
                  THEN <<e.n, LimitOf(c)>>
                  ELSE <<-1, LimitOf(c)>>]_vars
C9_Witness ==
    /\ \E c \in Calls : IsDone(c, "Get") /\ call[c].err = "nil" /\ call[c].result[1] = -1
    /\ \E c \in Calls : IsDone(c, "Get") /\ call[c].err = "none" /\ call[c].result[1] >= 0

\* C10 as stated: Get changes nothing in the store, and a Get served right
\* after another Get of the same counter returns the same result.
C10_PeekTwiceSame ==
    [][\A c \in Calls :
          Serves(c, "Get")
             => /\ store' = store
                /\ \A d \in Calls :
                      (lastGet = d /\ call[d].key = call[c].key)
                          => call'[c].result = call[d].result]_vars

\* C10 as amended: the same, for two Gets whose reads both succeeded in
\* transport or both failed.
C10_PeekTwiceSameNoFailure ==
    [][\A c \in Calls :
          Serves(c, "Get")
             => /\ store' = store
                /\ \A d \in Calls :
                      (lastGet = d /\ call[d].key = call[c].key
                         /\ (call[d].err = "transport") = (call'[c].err = "transport"))
                          => call'[c].result = call[d].result]_vars
C10_Witness ==
    \E c \in Calls, d \in Calls :
        /\ c /= d /\ lastGet = c
        /\ IsDone(c, "Get") /\ IsDone(d, "Get") /\ call[c].key = call[d].key
        /\ call[c].err = "none" /\ call[d].err = "none"
        /\ call[c].result = call[d].result /\ call[c].result[1] >= 0

\* C11: a Credit served without error on a counter holding the integer v
\* (absent: v = 0) returns (v-1, limit) and leaves v-1 stored, also for
\* v <= 0: there is no floor at zero.
C11_CreditDecrements ==
    [][\A c \in Calls :
          LET e == store[call[c].key]
              v == IF e.present THEN e.n ELSE 0
          IN (Serves(c, "Credit") /\ call'[c].err = "none")
             => /\ call'[c].result = <<v - 1, LimitOf(c)>>
                /\ store'[call[c].key].present /\ store'[call[c].key].int
                /\ store'[call[c].key].n = v - 1]_vars
C11_Witness ==
    \E c \in Calls, d \in Calls :
        /\ IsDone(c, "Credit") /\ call[c].err = "none" /\ call[c].result[1] = -1
        /\ IsDone(d, "Credit") /\ call[d].err = "none" /\ call[d].result[1] = -2
        /\ store[call[d].key].present /\ store[call[d].key].n = -2

\* C12: a Credit whose DECR failed in transport returns (-1, limit), and no
\* Credit whose DECR succeeded returns that tuple.
C12_FailedCreditDistinct ==
    \A c \in Calls :
        (IsDone(c, "Credit") /\ IsRegistered(c))
            => /\ call[c].err = "transport" => call[c].result = <<-1, LimitOf(c)>>
               /\ call[c].err = "none" => call[c].result /= <<-1, LimitOf(c)>>

\* C13: key derivation is injective: the key a call derives is the key of no
\* other triple (feature, user, UTC date), also for names holding ':'; and
\* Credit derives its key as Get and Consume do.
C13_KeyInjective ==
    [][\A c \in Calls :
          (call[c].pc = "idle" /\ call'[c].pc /= "idle")
          => /\ call'[c].key = getKey(call'[c].feature, call'[c].user, now)
             /\ \A f \in KeyNames, u \in KeyNames, d \in 0..MaxDay :
                   getKey(f, u, d * TicksPerDay) = call'[c].key
                   => /\ f = call'[c].feature
                      /\ u = call'[c].user
                      /\ d = now \div TicksPerDay]_vars

\* C14: the key a call derives is the key of every instant of the same UTC
\* day and of no instant of another day; a Consume changes no counter but
\* its own (so none of the day before); and the first request the store
\* serves on the key of a day after the first is a Consume counting from
\* absent, whatever the counter of the day before holds.
DayOf(t) == t \div TicksPerDay
LaterKeys == {getKey(f, u, d * TicksPerDay) : f \in Registered, u \in Users, d \in 1..MaxDay}
FirstOn(c) ==
    \A d \in Calls \ {c} : ~(call[d].sent /\ call[d].key = call[c].key)
C14_DailyReset ==
    [][\A c \in Calls :
          /\ (call[c].pc = "idle" /\ call'[c].pc /= "idle" /\ call'[c].key /= <<>>)
             => \A t \in 0..MaxTime :
                   (getKey(call'[c].feature, call'[c].user, t) = call'[c].key)
                       <=> (DayOf(t) = DayOf(now))
          /\ (call[c].op = "Consume" /\ call[c].pc = "ready" /\ call'[c].pc /= "ready")
             => \A k \in AllKeys \ {call[c].key} : store'[k] = store[k]
          /\ (Serves(c, "Consume") /\ call'[c].err = "none"
                /\ call[c].key \in LaterKeys /\ FirstOn(c))
             => /\ ~store[call[c].key].present
                /\ call'[c].result = <<1, LimitOf(c), TRUE>>]_vars
C14_Witness ==
    \E c \in Calls, d \in Calls :
        /\ IsDone(c, "Consume") /\ call[c].err = "none" /\ call[c].key \in Today
        /\ call[c].result = <<LimitOf(c), LimitOf(c), TRUE>>
        /\ IsDone(d, "Consume") /\ call[d].err = "none" /\ call[d].key \in LaterKeys
        /\ call[d].feature = call[c].feature /\ call[d].user = call[c].user
        /\ call[d].result = <<1, LimitOf(d), TRUE>>
        /\ store[call[c].key].present /\ store[call[c].key].n = LimitOf(c)

\* C15: New returns an engine only when its ping of the store succeeded; when
\* the ping failed it returns an error and no engine, and no Get, Consume or
\* Credit is ever invoked without an engine that New returned.
C15_ConstructionChecked ==
    /\ hg.engine => (hg.ping = "ok" /\ ~hg.err)
    /\ hg.ping = "fail" => (hg.err /\ ~hg.engine)
    /\ ~hg.engine => (store = Keyspace(Absent) /\ \A c \in Calls : call[c] = Idle)
C15_Witness ==
    /\ hg.ping = "fail" /\ hg.err /\ ~hg.engine
    /\ now > 0

\* C16: a Consume that increments a counter which has an expiry leaves that
\* expiry as it was; one that increments a counter without expiry (absent
\* before, or left without one) gives it the deadline ttlSeconds after the
\* instant the script runs (a deadline that is not in the future removes the
\* key). A Consume that is denied changes nothing.
Runs(c) == call[c].op = "Consume" /\ call[c].pc = "ready" /\ call'[c].pc = "done"
C16_ExpiryOnceSet ==
    [][\A c \in Calls :
          LET k == call[c].key
              e == store[k]
              v == IF e.present THEN e.n ELSE 0
              deadline == now + call[c].ttl * TicksPerSec
          IN (Runs(c) /\ call'[c].err = "none")
             => IF call'[c].result[3]
                THEN IF e.present /\ e.exp /= NoExpiry
                     THEN store'[k] = IntEntry(v + 1, e.exp)
                     ELSE store'[k] = IF deadline > now THEN IntEntry(v + 1, deadline)
                                      ELSE Absent
                ELSE store' = store]_vars
\* A second allowed Consume on a counter whose deadline the first one set.
C16_Witness ==
    \E c \in Calls, d \in Calls :
        /\ IsDone(c, "Consume") /\ call[c].err = "none" /\ call[c].result[3]
        /\ IsDone(d, "Consume") /\ call[d].err = "none" /\ call[d].result[3]
        /\ call[c].key = call[d].key
        /\ call[c].result[1] = 1 /\ call[d].result[1] = 2
        /\ store[call[d].key].present /\ store[call[d].key].n = 2
        /\ store[call[d].key].exp <= TicksPerDay

\* C17: every counter Consume created under the key of the first day has an
\* expiry, and its deadline is no later than the end of that day.
C17_ExpiresByMidnight ==
    \A k \in Today :
        store[k].present => (store[k].exp /= NoExpiry /\ store[k].exp <= TicksPerDay)

\* C18: a Credit leaves the expiry of an existing counter as it was and
\* creates an absent one without expiry; a counter without expiry stays
\* present and without expiry through every step that is not a Consume
\* running on it; and a Consume that increments it does not leave it present
\* without expiry.
C18_CreditKeepsExpiry ==
    [][/\ \A c \in Calls :
            LET k == call[c].key
            IN (call[c].op = "Credit" /\ call[c].pc = "ready" /\ call'[c].pc = "done")
               => /\ \A j \in AllKeys \ {k} : store'[j] = store[j]
                  /\ store[k].present
                        => (store'[k].present /\ store'[k].exp = store[k].exp)
                  /\ (~store[k].present /\ store'[k].present)
                        => store'[k] = IntEntry(-1, NoExpiry)
       /\ \A k \in AllKeys :
            (store[k].present /\ store[k].exp = NoExpiry)
            => IF \E c \in Calls : Runs(c) /\ call[c].key = k /\ store'[k] /= store[k]
               THEN ~(store'[k].present /\ store'[k].exp = NoExpiry)
               ELSE store'[k].present /\ store'[k].exp = NoExpiry]_vars
\* Credit created the counter, time has passed, and a second Credit on it
\* was served; the counter has no expiry.
C18_Witness ==
    \E c \in Calls, d \in Calls :
        /\ IsDone(c, "Credit") /\ call[c].err = "none" /\ call[c].result[1] = -1
        /\ IsDone(d, "Credit") /\ call[d].err = "none" /\ call[d].result[1] = -2
        /\ call[c].key = call[d].key
        /\ store[call[c].key] = IntEntry(-2, NoExpiry)
        /\ now >= TicksPerDay

\* C19: the ttl a Consume passes to the script is at least 1 and at most the
\* seconds of a day, and after an allowed Consume returning (n, limit, true)
\* the counter is present with value n.
C19_TTLAtLeastOne ==
    [][\A c \in Calls :
          /\ (call[c].op = "Consume" /\ call[c].pc = "keyed" /\ call'[c].pc = "ready")
             => (call'[c].ttl >= 1 /\ call'[c].ttl <= SecsPerDay)
          /\ (Runs(c) /\ call'[c].err = "none" /\ call'[c].result[3])
             => /\ store'[call[c].key].present
                /\ store'[call[c].key].n = call'[c].result[1]]_vars

\* C20: whenever the store is about to run the script on a counter that is
\* absent or an integer, the run performs no DECR: it either returns
\* allowed = 0 without writing, or performs one INCR and returns allowed = 1
\* with a new value that is at most the limit.
C20_NoCompensation ==
    \A c \in Calls :
        (call[c].op = "Consume" /\ call[c].pc = "ready"
           /\ (store[call[c].key].present => store[call[c].key].int))
        => LET r == ConsumeScript(store, call[c].key, LimitOf(c), call[c].ttl, now)
           IN /\ ~r.err
              /\ r.decr = 0
              /\ \/ r.incr = 0 /\ r.st = store /\ r.reply[3] = 0
                 \/ r.incr = 1 /\ r.reply[3] = 1 /\ r.reply[1] <= LimitOf(c)
\* A Consume brought the counter to the limit and the store is about to run
\* the script for another Consume on it.
C20_Witness ==
    \E c \in Calls, d \in Calls :
        /\ IsDone(c, "Consume") /\ call[c].err = "none" /\ IsRegistered(c)
        /\ call[c].result = <<LimitOf(c), LimitOf(c), TRUE>>
        /\ call[d].op = "Consume" /\ call[d].pc = "ready" /\ call[d].key = call[c].key
        /\ store[call[d].key].present /\ store[call[d].key].n = LimitOf(d)

====
